---- MODULE Spec2Model ----
(***************************************************************************)
(* Collatz runner with a persistent "seen" cache (src/Conjecture.py).      *)
(* The model has the pure sequence functions as operators, the driver      *)
(* main() as a state machine over its program counter, and the cache file  *)
(* and its temporary sibling as explicit state.                            *)
(***************************************************************************)
EXTENDS Integers, Sequences, FiniteSets, TLC

VARIABLES
    args,        \* the parsed command line (argparse namespace)
    pc,          \* position of main()
    n,           \* main: n, the validated start
    seen,        \* main: seen, the in-memory cache
    starts,      \* main: starts, the plan
    idx,         \* index of the for-loop over starts (1-based)
    seq,         \* main: seq / seq2, the sequence of the last engine call
    stopped_at,  \* main: stopped_at / stopped2
    next_start,  \* main: next_start of the nested downward walk
    current,     \* main: current of the auto loop
    counts,      \* main: counts, a Counter kept in insertion order
    disk,        \* content of the cache file seen_path
    tmp,         \* content of seen_path + '.tmp'
    out,         \* lines printed so far
    status,      \* exit status once main() has returned
    ret,         \* where save_seen returns to
    crashed,     \* the process was killed
    calls,       \* history: starts handed to a sequence function
    steps,       \* history: Collatz steps done by the last sequence call
    diskBefore,  \* history: the cache file when the last save_seen began
    saveResult,  \* history: outcome of the last save_seen
    durable,     \* history: numbers emitted up to the last successful save
    loaded,      \* history: the cache as load_seen returned it
    disk0        \* history: the cache file when the session began

vars == <<args, pc, n, seen, starts, idx, seq, stopped_at, next_start, current,
          counts, disk, tmp, out, status, ret, crashed, calls, steps,
          diskBefore, saveResult, durable, loaded, disk0>>

\* ---------------------------------------------------------------- bounds
MaxStart   == 3     \* starts -1..MaxStart are tried
MaxRepeats == 3     \* --repeats 0..MaxRepeats
MaxAfter   == 1     \* --after -1..MaxAfter
MaxTo      == 2     \* --to 0..MaxTo
MaxAuto    == 2     \* the auto loop is followed for MaxAuto starts
MaxPartial == 1     \* a failed write leaves at most MaxPartial numbers
MaxEngine  == 9     \* starts of the engine-only specification
MaxStop    == 5     \* stop sets of the engine-only specification
MaxLogSteps == 7    \* a sequence loop is followed for 2^MaxLogSteps passes

\* The start of the usage examples and of the default-mode scenario.
DocStart == 27
\* The repeats scenario: --repeats 3 from start 6 with 6 in the cache.
RepeatsCase == [start |-> 6, repeats |-> 3]
RepeatStart == RepeatsCase.start

\* The range examples of the planner: 5 down to 1 and 2 up to 5.
RangeCases == {[start |-> 5, to |-> 1], [start |-> 2, to |-> 5]}
\* The counting scenario: a batch of 20 starts, threshold unset.
BatchCase == [start |-> 1, repeats |-> 20]

\* ------------------------------------------------------- optional values
None == <<>>
Some(v) == <<v>>
Val(o) == o[1]

Range(s) == {s[i] : i \in 1..Len(s)}
Min(a, b) == IF a <= b THEN a ELSE b
Max(a, b) == IF a >= b THEN a ELSE b

\* ------------------------------------------------------ sequence engine
\* Mutant: the odd branch subtracts one.
StepMinus(x) == IF x % 2 = 0 THEN x \div 2 ELSE x * 3 - 1

\* The transformation of lines 31-34 / 48-51 (Python // and % floor).
Step(x) == IF x % 2 = 0 THEN x \div 2 ELSE x * 3 + 1

\* The state of a sequence loop: the current value x, the list built so
\* far, the stop value, whether the loop has been left (done), whether it
\* can be left at all (term), and the Collatz steps done.
LoopState(start) ==
    [x |-> start, seq |-> <<start>>, stopped_at |-> None, done |-> FALSE,
     term |-> TRUE, steps |-> 0]

\* The function returns: its loop was left within the passes followed.
Returned(st) == st.done /\ st.term

\* One pass of the while-loop of collatz_sequence, lines 30-35. A value
\* that comes back is a cycle that never meets 1: the loop is never left
\* (term = FALSE).
collatz_body(st) ==
    IF st.x = 1 THEN [st EXCEPT !.done = TRUE]
    ELSE LET m == Step(st.x) IN
         IF m \in Range(st.seq) THEN [st EXCEPT !.done = TRUE, !.term = FALSE]
         ELSE [st EXCEPT !.x = m, !.seq = Append(st.seq, m), !.steps = @ + 1]

\* The while-loop, followed for up to 2^k passes.
RECURSIVE collatz_loop(_, _)
collatz_loop(st, k) ==
    IF st.done THEN st
    ELSE IF k = 0 THEN collatz_body(st)
    ELSE collatz_loop(collatz_loop(st, k - 1), k - 1)

\* collatz_sequence, lines 28-36.
collatz_sequence(start) == collatz_loop(LoopState(start), MaxLogSteps)

\* One pass of the while-loop of lines 47-55: the new value is tested
\* against the stop set before it is appended.
seen_body(st, S) ==
    IF st.x = 1 THEN [st EXCEPT !.done = TRUE]
    ELSE LET m == Step(st.x) IN
         IF m \in S
         THEN [st EXCEPT !.x = m, !.stopped_at = Some(m), !.done = TRUE,
                         !.steps = @ + 1]
         ELSE IF m \in Range(st.seq)
         THEN [st EXCEPT !.done = TRUE, !.term = FALSE]
         ELSE [st EXCEPT !.x = m, !.seq = Append(st.seq, m), !.steps = @ + 1]

RECURSIVE seen_loop(_, _, _)
seen_loop(st, S, k) ==
    IF st.done THEN st
    ELSE IF k = 0 THEN seen_body(st, S)
    ELSE seen_loop(seen_loop(st, S, k - 1), S, k - 1)

\* The return of line 46.
StartSeen(start) ==
    [x |-> start, seq |-> <<>>, stopped_at |-> Some(start), done |-> TRUE,
     term |-> TRUE, steps |-> 0]

\* Mutant: the stop value is appended before the loop is left (as collatz()
\* of src/collatz.py does).
seen_body_append(st, S) ==
    IF st.x = 1 THEN [st EXCEPT !.done = TRUE]
    ELSE LET m == Step(st.x) IN
         IF m \in S
         THEN [st EXCEPT !.x = m, !.seq = Append(st.seq, m),
                         !.stopped_at = Some(m), !.done = TRUE, !.steps = @ + 1]
         ELSE IF m \in Range(st.seq)
         THEN [st EXCEPT !.done = TRUE, !.term = FALSE]
         ELSE [st EXCEPT !.x = m, !.seq = Append(st.seq, m), !.steps = @ + 1]

RECURSIVE seen_loop_append(_, _, _)
seen_loop_append(st, S, k) ==
    IF st.done THEN st
    ELSE IF k = 0 THEN seen_body_append(st, S)
    ELSE seen_loop_append(seen_loop_append(st, S, k - 1), S, k - 1)

run_collatz_append(start, S) ==
    IF start \in S THEN StartSeen(start)
    ELSE seen_loop_append(LoopState(start), S, MaxLogSteps)

\* Mutant: the start is not tested against the stop set before the loop.
run_collatz_nostartcheck(start, S) == seen_loop(LoopState(start), S, MaxLogSteps)

\* Mutant: the stop set is ignored and the sequence always runs to 1.
run_collatz_nostop(start, S) == seen_loop(LoopState(start), {}, MaxLogSteps)

\* run_collatz_with_seen_check, lines 39-56.
run_collatz_with_seen_check(start, S) ==
    IF start \in S THEN StartSeen(start)
    ELSE seen_loop(LoopState(start), S, MaxLogSteps)

\* ----------------------------------------------------------- seen store
\* A file is missing, unreadable as JSON (corrupt, empty or cut short), or
\* a JSON list of integers.
Missing == [kind |-> "missing", data |-> <<>>]
Partial(s) == [kind |-> "corrupt", data |-> s]
Json(s) == [kind |-> "json", data |-> s]

\* sorted(list(seen)) of line 74.
Sorted(S) ==
    [i \in 1..Cardinality(S) |->
        CHOOSE x \in S : Cardinality({y \in S : y < x}) = i - 1]

\* Mutant: only the numbers of the last sequence are written.
DumpLast(S) == Json(Sorted(S \cap Range(seq)))

\* json.dump(sorted(list(seen)), f), line 74: the complete new content.
Dump(S) == Json(Sorted(S))

\* load_seen, lines 59-67: a missing file gives the empty set silently, an
\* unreadable one or an I/O error gives it with a warning.
load_seen(file, ioerr) ==
    IF file.kind = "missing" THEN [seen |-> {}, warn |-> FALSE]
    ELSE IF ioerr \/ file.kind = "corrupt" THEN [seen |-> {}, warn |-> TRUE]
    ELSE [seen |-> Range(file.data), warn |-> FALSE]

\* The set a later session would load from the file.
DiskSet(file) == load_seen(file, FALSE).seen

\* What the temporary file holds when execution leaves save_seen at p
\* without finishing it: a write in progress leaves a prefix.
TmpAfterAbort(p) ==
    IF p = "save_dump"
    THEN {Partial(SubSeq(Sorted(seen), 1, k)) :
             k \in 0..Min(Cardinality(seen) - 1, MaxPartial)}
    ELSE {tmp}

\* ------------------------------------------------------------- printing
Line(k, s, v) == [k |-> k, s |-> s, v |-> v]
SkipLine(s) == Line("skip", s, <<>>)
SeqLine(s, q) == Line("seq", s, q)
StopLine(s, at) == Line("stopped", s, <<at>>)

\* The numbers of the sequences printed so far.
Emitted(o) == UNION {Range(o[i].v) : i \in {j \in 1..Len(o) : o[j].k = "seq"}}

\* ------------------------------------------------------------- counting
\* Counter.update(seq), lines 187 and 210: one more occurrence per element,
\* a new key is added last.
Keys(c) == {c[i][1] : i \in 1..Len(c)}
Occurrences(q, x) == Cardinality({i \in 1..Len(q) : q[i] = x})

CounterUpdate(c, q) ==
    LET firsts == {i \in 1..Len(q) :
                      /\ q[i] \notin Keys(c)
                      /\ \A j \in 1..(i - 1) : q[j] # q[i]}
        added == [k \in 1..Cardinality(firsts) |->
                    LET i == CHOOSE i \in firsts :
                                Cardinality({j \in firsts : j < i}) = k - 1
                    IN <<q[i], Occurrences(q, q[i])>>]
        kept == [i \in 1..Len(c) |-> <<c[i][1], c[i][2] + Occurrences(q, c[i][1])>>]
    IN kept \o added

\* Counter.most_common(), line 227: by count, highest first, equal counts in
\* insertion order.
most_common(c) ==
    LET rank(i) == Cardinality({j \in 1..Len(c) : c[j][2] > c[i][2]})
                   + Cardinality({j \in 1..(i - 1) : c[j][2] = c[i][2]}) + 1
    IN [p \in 1..Len(c) |-> c[CHOOSE i \in 1..Len(c) : rank(i) = p]]

\* Mutant: the default threshold has no floor of 2.
min_count_nofloor(a, plan) ==
    IF a.min_count = None THEN Len(plan) \div 4 ELSE Val(a.min_count)

\* The threshold of lines 219-225.
min_count_of(a, plan) ==
    IF a.min_count = None THEN Max(2, Len(plan) \div 4) ELSE Val(a.min_count)

\* Lines 227-229.
FreqLines(c, m) ==
    LET shown == SelectSeq(c, LAMBDA e : e[2] >= m)
    IN [i \in 1..Len(shown) |-> Line("freq", shown[i][1], <<shown[i][2]>>)]

\* Lines 217-231: the frequency table, then the terminal marker.
Report(a, plan, c) ==
    (IF a.counts
     THEN <<Line("freq_header", min_count_of(a, plan), <<>>)>>
          \o FreqLines(most_common(c), min_count_of(a, plan))
     ELSE <<>>) \o <<Line("done", 0, <<>>)>>

\* -------------------------------------------------------------- planner
\* Lines 139-146: the inclusive range from a to t, in either direction.
RangeList(a, t) ==
    LET step == IF t >= a THEN 1 ELSE -1
        len == (IF t >= a THEN t - a ELSE a - t) + 1
    IN [i \in 1..len |-> a + step * (i - 1)]

Accept(plan) == [ok |-> TRUE, starts |-> plan, msg |-> "ok"]
Reject(msg) == [ok |-> FALSE, starts |-> <<>>, msg |-> msg]

\* Mutant: the same start is repeated r times.
RepeatSame(a, r) == [i \in 1..r |-> a]

\* Line 168.
Repeat(a, r) == [i \in 1..r |-> a + (i - 1)]

\* Mutant: --repeats and --after are looked at before --to.
BuildStartsRepeatsFirst(nn, a) ==
    IF a.after # None
    THEN IF Val(a.after) < 0 THEN Reject("Invalid --after value; must be >= 0")
         ELSE Accept(Repeat(nn, Val(a.after) + 1))
    ELSE IF a.repeats # None
    THEN IF Val(a.repeats) <= 0 THEN Reject("Repeats must be >= 1")
         ELSE Accept(Repeat(nn, Val(a.repeats)))
    ELSE IF a.to # None THEN Accept(RangeList(nn, Val(a.to)))
    ELSE Accept(Repeat(nn, IF a.start # None THEN 2 ELSE 1))

\* Lines 136-168, with args.to already set by --down.
BuildStarts(nn, a) ==
    IF a.to # None THEN Accept(RangeList(nn, Val(a.to)))
    ELSE IF a.after # None
    THEN IF Val(a.after) < 0 THEN Reject("Invalid --after value; must be >= 0")
         ELSE Accept(Repeat(nn, Val(a.after) + 1))
    ELSE LET r == IF a.repeats # None THEN Val(a.repeats)
                  ELSE IF a.start # None THEN 2 ELSE 1
         IN IF r <= 0 THEN Reject("Repeats must be >= 1")
            ELSE Accept(Repeat(nn, r))

\* ------------------------------------------------------- command lines
OptOf(S) == {None} \cup {Some(v) : v \in S}

NoMode == [repeats |-> None, after |-> None, to |-> None,
           down |-> FALSE, auto |-> FALSE]

NumFlags(m) ==
    (IF m.repeats # None THEN 1 ELSE 0) + (IF m.after # None THEN 1 ELSE 0)
    + (IF m.to # None THEN 1 ELSE 0) + (IF m.down THEN 1 ELSE 0)
    + (IF m.auto THEN 1 ELSE 0)

AllModes ==
    [repeats : OptOf(0..MaxRepeats), after : OptOf(-1..MaxAfter),
     to : OptOf(0..MaxTo), down : BOOLEAN, auto : BOOLEAN]

\* No mode flag or a single one, with every value of it.
SingleModes == {m \in AllModes : NumFlags(m) <= 1}

\* Two mode flags at once, with the values that decide which one wins.
PairModes ==
    {m \in [repeats : OptOf({1}), after : OptOf({-1}), to : OptOf({0, MaxTo}),
            down : BOOLEAN, auto : BOOLEAN] :
        /\ NumFlags(m) = 2
        /\ m.auto => (m.down \/ m.after # None)}

MkArgs(s, m, ns, c, mc, bad) ==
    [start |-> s, repeats |-> m.repeats, after |-> m.after, to |-> m.to,
     down |-> m.down, auto |-> m.auto, no_skip |-> ns, counts |-> c,
     min_count |-> mc, malformed |-> bad]

StartVals == (-1..MaxStart) \cup {RepeatStart}

ArgSet ==
    {MkArgs(s, m, ns, FALSE, None, FALSE) :
        s \in OptOf(StartVals), m \in SingleModes \cup PairModes, ns \in BOOLEAN}
    \cup {MkArgs(Some(s), m, ns, TRUE, mc, FALSE) :
            s \in 1..MaxStart, m \in {sm \in SingleModes : ~sm.auto},
            ns \in BOOLEAN, mc \in OptOf({1})}
    \cup {MkArgs(Some(DocStart), NoMode, FALSE, c, None, FALSE) : c \in BOOLEAN}
    \cup {MkArgs(Some(1), NoMode, FALSE, FALSE, None, TRUE)}

\* What the user types at the prompt of line 101: None is not an integer.
TypedInputs == OptOf({0, 1, 3})

\* Cache files a session may find: none, an unreadable one, lists written
\* by earlier sessions, and lists written by hand.
InitFiles ==
    {Missing, Partial(<<>>)}
    \cup {Json(q) : q \in {<<1>>, <<1, 2, 4>>, <<3>>, <<2, 1, 2>>,
                           <<RepeatStart>>,
                           <<1, 2, 3, 4, 5, RepeatStart, 8, 10, 16>>}}

\* The range examples, as --to and as --down, on a fresh and a small cache.
RangeArgs ==
    {MkArgs(Some(c.start), [NoMode EXCEPT !.to = Some(c.to)], ns, FALSE, None, FALSE) :
        c \in RangeCases, ns \in BOOLEAN}
    \cup {MkArgs(Some(c.start), [NoMode EXCEPT !.down = TRUE], ns, FALSE, None, FALSE) :
            c \in {d \in RangeCases : d.to = 1}, ns \in BOOLEAN}

RangeFiles == {Missing, Json(<<1, 2, 4>>)}

\* The counting scenario, on a fresh cache.
BatchArgs ==
    {MkArgs(Some(BatchCase.start),
            [NoMode EXCEPT !.repeats = Some(BatchCase.repeats)],
            FALSE, TRUE, None, FALSE)}

BatchFiles == {Missing}

Sessions ==
    (ArgSet \X InitFiles) \cup (RangeArgs \X RangeFiles)
    \cup (BatchArgs \X BatchFiles)

\* ---------------------------------------------------------------- driver
Init ==
    /\ \E s \in Sessions : args = s[1] /\ disk = s[2]
    /\ pc = "parse"
    /\ n = 0
    /\ seen = {}
    /\ starts = <<>>
    /\ idx = 1
    /\ seq = <<>>
    /\ stopped_at = None
    /\ next_start = 0
    /\ current = 0
    /\ counts = <<>>
    /\ tmp = Missing
    /\ out = <<>>
    /\ status = None
    /\ ret = "none"
    /\ crashed = FALSE
    /\ calls = <<>>
    /\ steps = 0
    /\ diskBefore = disk
    /\ saveResult = "none"
    /\ durable = {}
    /\ loaded = {}
    /\ disk0 = disk

Running == ~crashed /\ pc \notin {"exit", "hung"}

\* return <code> after print(<line>).
Exit(code, line) ==
    /\ pc' = "exit"
    /\ status' = Some(code)
    /\ out' = Append(out, line)

\* Lines 92-110: argparse refuses a non-integer option (status 2), the
\* prompt refuses a non-integer, and a start below 1 is refused.
ParseArgs ==
    /\ Running /\ pc = "parse"
    /\ \E typed \in TypedInputs :
         IF args.malformed THEN Exit(2, Line("usage", 0, <<>>)) /\ n' = n
         ELSE IF args.start = None /\ typed = None
         THEN Exit(1, Line("invalid_input", 0, <<>>)) /\ n' = n
         ELSE LET v == IF args.start = None THEN Val(typed) ELSE Val(args.start)
              IN IF v <= 0
                 THEN Exit(1, Line("not_positive", v, <<>>)) /\ n' = n
                 ELSE n' = v /\ pc' = "load" /\ UNCHANGED <<status, out>>
    /\ UNCHANGED <<args, seen, starts, idx, seq, stopped_at, next_start,
                   current, counts, disk, tmp, ret, crashed, calls, steps,
                   diskBefore, saveResult, durable, loaded, disk0>>

\* Line 113.
LoadSeen ==
    /\ Running /\ pc = "load"
    /\ \E ioerr \in BOOLEAN :
         LET r == load_seen(disk, ioerr) IN
         /\ seen' = r.seen
         /\ loaded' = r.seen
         /\ out' = IF r.warn THEN Append(out, Line("warn_load", 0, <<>>)) ELSE out
    /\ pc' = "plan"
    /\ UNCHANGED <<args, n, starts, idx, seq, stopped_at, next_start, current,
                   counts, disk, tmp, status, ret, crashed, calls, steps,
                   diskBefore, saveResult, durable, disk0>>

\* Mutant: --down stops one short of 1.
ArgsAfterDownToTwo(a) == IF a.down THEN [a EXCEPT !.to = Some(2)] ELSE a

\* Lines 115-117: --down behaves like --to 1.
ArgsAfterDown(a) == IF a.down THEN [a EXCEPT !.to = Some(1)] ELSE a

\* Lines 115-171: --down, the branch to the auto loop, the plan.
Plan ==
    /\ Running /\ pc = "plan"
    /\ args' = ArgsAfterDown(args)
    /\ IF args.auto
       THEN /\ current' = n
            /\ pc' = "auto"
            /\ UNCHANGED <<starts, idx, status, out>>
       ELSE LET r == BuildStarts(n, args') IN
            IF r.ok
            THEN /\ starts' = r.starts
                 /\ idx' = 1
                 /\ pc' = "loop"
                 /\ UNCHANGED <<current, status, out>>
            ELSE /\ Exit(1, Line(r.msg, 0, <<>>))
                 /\ UNCHANGED <<starts, idx, current>>
    /\ UNCHANGED <<n, seen, seq, stopped_at, next_start, counts, disk, tmp,
                   ret, crashed, calls, steps, diskBefore, saveResult, durable, loaded, disk0>>

\* Mutant: the cache is replaced by the numbers of the sequence.
MergeReplace(S, q) == Range(q)

\* Mutant: the last number of the sequence is not added.
MergeDropLast(S, q) == S \cup Range(SubSeq(q, 1, Len(q) - 1))

\* Mutant: the start of the sequence is not added.
MergeTail(S, q) == S \cup Range(Tail(q))

\* seen.update(seq), lines 129, 184 and 207.
Merge(S, q) == S \cup Range(q)

\* Lines 180-185 and 204-208: the engine on start s with the cache as stop
\* set; a non-empty sequence is printed and merged and save_seen is entered,
\* an empty one is reported as a skip. r is where execution goes on.
RunStart(s, r) ==
    LET res == run_collatz_with_seen_check(s, seen) IN
    /\ calls' = Append(calls, s)
    /\ steps' = res.steps
    /\ IF ~Returned(res)
       THEN /\ pc' = "hung"
            /\ UNCHANGED <<seq, stopped_at, out, seen, ret, diskBefore, saveResult>>
       ELSE /\ seq' = res.seq
            /\ stopped_at' = res.stopped_at
            /\ IF res.seq # <<>>
               THEN /\ out' = Append(out, SeqLine(s, res.seq))
                    /\ seen' = Merge(seen, res.seq)
                    /\ pc' = "save_open"
                    /\ ret' = r
                    /\ diskBefore' = disk
                    /\ saveResult' = "pending"
               ELSE /\ out' = Append(out, SkipLine(s))
                    /\ pc' = r
                    /\ UNCHANGED <<seen, ret, diskBefore, saveResult>>

\* Mutant: the membership test of the skip is inverted.
SkipTestInverted(s) == (~args.no_skip) /\ s \notin seen

\* Lines 124, 175 and 200: the skip test.
SkipTest(s) == (~args.no_skip) /\ s \in seen

\* Lines 174-177: a start that is in the cache is skipped.
LoopSkip ==
    /\ Running /\ pc = "loop" /\ idx <= Len(starts)
    /\ SkipTest(starts[idx])
    /\ out' = Append(out, SkipLine(starts[idx]))
    /\ idx' = idx + 1
    /\ UNCHANGED <<args, pc, n, seen, starts, seq, stopped_at, next_start,
                   current, counts, disk, tmp, status, ret, crashed, calls,
                   steps, diskBefore, saveResult, durable, loaded, disk0>>

\* Lines 178-185, 188-190.
LoopRun ==
    /\ Running /\ pc = "loop" /\ idx <= Len(starts)
    /\ ~SkipTest(starts[idx])
    /\ RunStart(starts[idx], "after_run")
    /\ UNCHANGED <<args, n, starts, idx, next_start, current, counts, disk,
                   tmp, status, crashed, durable, loaded, disk0>>

\* Lines 186-187 and 209-210.
Counted(c) == IF args.counts /\ seq # <<>> THEN CounterUpdate(c, seq) ELSE c

\* Lines 193-194 and 213-214.
StopNotice(s) ==
    IF stopped_at # None THEN <<StopLine(s, Val(stopped_at))>> ELSE <<>>

\* Mutant: the nested walk is entered for any range that ends at 1.
AfterRunRangeToOne ==
    /\ Running /\ pc = "after_run"
    /\ counts' = Counted(counts)
    /\ out' = out \o StopNotice(starts[idx])
    /\ IF stopped_at # None /\ args.to = Some(1) /\ starts[idx] - 1 >= 1
       THEN /\ next_start' = starts[idx] - 1
            /\ pc' = "nested"
            /\ idx' = idx
       ELSE /\ next_start' = IF stopped_at # None /\ args.to = Some(1)
                             THEN starts[idx] - 1 ELSE next_start
            /\ pc' = "loop"
            /\ idx' = idx + 1
    /\ UNCHANGED <<args, n, seen, starts, seq, stopped_at, current, disk, tmp,
                   status, ret, crashed, calls, steps, diskBefore, saveResult,
                   durable, loaded, disk0>>

\* Lines 186-198: counting, the stop notice, and the entry into the nested
\* downward walk; with no walk to do the for-loop goes on.
AfterRun ==
    /\ Running /\ pc = "after_run"
    /\ counts' = Counted(counts)
    /\ out' = out \o StopNotice(starts[idx])
    /\ IF stopped_at # None /\ args.down /\ starts[idx] - 1 >= 1
       THEN /\ next_start' = starts[idx] - 1
            /\ pc' = "nested"
            /\ idx' = idx
       ELSE /\ next_start' = IF stopped_at # None /\ args.down
                             THEN starts[idx] - 1 ELSE next_start
            /\ pc' = "loop"
            /\ idx' = idx + 1
    /\ UNCHANGED <<args, n, seen, starts, seq, stopped_at, current, disk, tmp,
                   status, ret, crashed, calls, steps, diskBefore, saveResult,
                   durable, loaded, disk0>>

\* next_start -= 1 and the test of line 199; when the walk is over the
\* for-loop goes on.
NestedDown ==
    /\ next_start' = next_start - 1
    /\ IF next_start - 1 >= 1
       THEN pc' = "nested" /\ idx' = idx
       ELSE pc' = "loop" /\ idx' = idx + 1

\* Lines 199-203.
NestedSkip ==
    /\ Running /\ pc = "nested"
    /\ SkipTest(next_start)
    /\ out' = Append(out, SkipLine(next_start))
    /\ NestedDown
    /\ UNCHANGED <<args, n, seen, starts, seq, stopped_at, current, counts,
                   disk, tmp, status, ret, crashed, calls, steps, diskBefore,
                   saveResult, durable, loaded, disk0>>

\* Lines 204-208, 211-212.
NestedRun ==
    /\ Running /\ pc = "nested"
    /\ ~SkipTest(next_start)
    /\ RunStart(next_start, "after_nested")
    /\ UNCHANGED <<args, n, starts, idx, next_start, current, counts, disk,
                   tmp, status, crashed, durable, loaded, disk0>>

\* Lines 209-215.
NestedAfter ==
    /\ Running /\ pc = "after_nested"
    /\ counts' = Counted(counts)
    /\ out' = out \o StopNotice(next_start)
    /\ NestedDown
    /\ UNCHANGED <<args, n, seen, starts, seq, stopped_at, current, disk, tmp,
                   status, ret, crashed, calls, steps, diskBefore, saveResult,
                   durable, loaded, disk0>>

\* Lines 217-232: the frequency table, "Done.", status 0.
Finish ==
    /\ Running /\ pc = "loop" /\ idx > Len(starts)
    /\ out' = out \o Report(args, starts, counts)
    /\ status' = Some(0)
    /\ pc' = "exit"
    /\ UNCHANGED <<args, n, seen, starts, idx, seq, stopped_at, next_start,
                   current, counts, disk, tmp, ret, crashed, calls, steps,
                   diskBefore, saveResult, durable, loaded, disk0>>

\* ------------------------------------------------------------- save_seen
InSave == pc \in {"save_open", "save_dump", "save_replace"}

\* Mutant: the cache file itself is opened for writing.
SaveOpenInPlace ==
    /\ Running /\ pc = "save_open"
    /\ disk' = Partial(<<>>)
    /\ pc' = "save_dump"
    /\ UNCHANGED <<args, n, seen, starts, idx, seq, stopped_at, next_start,
                   current, counts, tmp, out, status, ret, crashed, calls,
                   steps, diskBefore, saveResult, durable, loaded, disk0>>

\* Line 73: open(tmp, 'w') creates or truncates the temporary file.
SaveOpen ==
    /\ Running /\ pc = "save_open"
    /\ tmp' = Partial(<<>>)
    /\ pc' = "save_dump"
    /\ UNCHANGED <<args, n, seen, starts, idx, seq, stopped_at, next_start,
                   current, counts, disk, out, status, ret, crashed, calls,
                   steps, diskBefore, saveResult, durable, loaded, disk0>>

\* Line 74 and the close of the with-block: the whole list is written.
SaveDump ==
    /\ Running /\ pc = "save_dump"
    /\ tmp' = Dump(seen)
    /\ pc' = "save_replace"
    /\ UNCHANGED <<args, n, seen, starts, idx, seq, stopped_at, next_start,
                   current, counts, disk, out, status, ret, crashed, calls,
                   steps, diskBefore, saveResult, durable, loaded, disk0>>

\* Line 75: os.replace(tmp, path), one atomic rename.
SaveReplace ==
    /\ Running /\ pc = "save_replace"
    /\ disk' = tmp
    /\ tmp' = Missing
    /\ saveResult' = "ok"
    /\ durable' = Emitted(out)
    /\ pc' = ret
    /\ UNCHANGED <<args, n, seen, starts, idx, seq, stopped_at, next_start,
                   current, counts, out, status, ret, crashed, calls, steps,
                   diskBefore, loaded, disk0>>

\* Mutant: a failed save is not caught and ends the session.
SaveFailFatal ==
    /\ Running /\ InSave
    /\ tmp' \in TmpAfterAbort(pc)
    /\ saveResult' = CASE pc = "save_open" -> "fail_open"
                       [] pc = "save_dump" -> "fail_write"
                       [] pc = "save_replace" -> "fail_replace"
    /\ out' = Append(out, Line("traceback", 0, <<>>))
    /\ pc' = "exit"
    /\ status' = Some(1)
    /\ UNCHANGED <<args, n, seen, starts, idx, seq, stopped_at, next_start,
                   current, counts, disk, ret, crashed, calls, steps,
                   diskBefore, durable, loaded, disk0>>

\* Lines 76-77: open, write or rename raised; a warning is printed and
\* save_seen returns.
SaveFail ==
    /\ Running /\ InSave
    /\ tmp' \in TmpAfterAbort(pc)
    /\ saveResult' = CASE pc = "save_open" -> "fail_open"
                       [] pc = "save_dump" -> "fail_write"
                       [] pc = "save_replace" -> "fail_replace"
    /\ out' = Append(out, Line("warn_save", 0, <<>>))
    /\ pc' = ret
    /\ UNCHANGED <<args, n, seen, starts, idx, seq, stopped_at, next_start,
                   current, counts, disk, status, ret, crashed, calls, steps,
                   diskBefore, durable, loaded, disk0>>

\* ------------------------------------------------------------- auto loop
\* Lines 124-125, 131.
AutoSkip ==
    /\ Running /\ pc = "auto" /\ current < n + MaxAuto
    /\ SkipTest(current)
    /\ out' = Append(out, SkipLine(current))
    /\ current' = current + 1
    /\ UNCHANGED <<args, pc, n, seen, starts, idx, seq, stopped_at, next_start,
                   counts, disk, tmp, status, ret, crashed, calls, steps,
                   diskBefore, saveResult, durable, loaded, disk0>>

\* Lines 126-130: the whole sequence, with no stop set.
AutoRun ==
    /\ Running /\ pc = "auto" /\ current < n + MaxAuto
    /\ ~SkipTest(current)
    /\ LET r == collatz_sequence(current) IN
       /\ calls' = Append(calls, current)
       /\ steps' = r.steps
       /\ IF ~Returned(r)
          THEN /\ pc' = "hung"
               /\ UNCHANGED <<seq, out, seen, ret, diskBefore, saveResult>>
          ELSE /\ seq' = r.seq
               /\ out' = Append(out, SeqLine(current, r.seq))
               /\ seen' = Merge(seen, r.seq)
               /\ pc' = "save_open"
               /\ ret' = "auto_next"
               /\ diskBefore' = disk
               /\ saveResult' = "pending"
    /\ UNCHANGED <<args, n, starts, idx, stopped_at, next_start, current,
                   counts, disk, tmp, status, crashed, durable, loaded, disk0>>

\* Line 131.
AutoNext ==
    /\ Running /\ pc = "auto_next"
    /\ current' = current + 1
    /\ pc' = "auto"
    /\ UNCHANGED <<args, n, seen, starts, idx, seq, stopped_at, next_start,
                   counts, disk, tmp, out, status, ret, crashed, calls, steps,
                   diskBefore, saveResult, durable, loaded, disk0>>

\* Lines 132-134: Ctrl-C anywhere in the auto loop. KeyboardInterrupt is not
\* an Exception, so save_seen does not catch it: a save in progress is
\* abandoned where it stands.
Interrupt ==
    /\ Running /\ args.auto
    /\ pc \in {"auto", "auto_next"} \/ InSave
    /\ tmp' \in TmpAfterAbort(pc)
    /\ saveResult' = IF InSave THEN "interrupted" ELSE saveResult
    /\ Exit(0, Line("interrupted", 0, <<>>))
    /\ UNCHANGED <<args, n, seen, starts, idx, seq, stopped_at, next_start,
                   current, counts, disk, ret, crashed, calls, steps,
                   diskBefore, durable, loaded, disk0>>

\* The process is killed (or the machine stops) at any point.
Crash ==
    /\ Running \/ (~crashed /\ pc = "hung")
    /\ crashed' = TRUE
    /\ tmp' \in TmpAfterAbort(pc)
    /\ UNCHANGED <<args, pc, n, seen, starts, idx, seq, stopped_at, next_start,
                   current, counts, disk, out, status, ret, calls, steps,
                   diskBefore, saveResult, durable, loaded, disk0>>

Next ==
    \/ ParseArgs
    \/ LoadSeen
    \/ Plan
    \/ LoopSkip
    \/ LoopRun
    \/ AfterRun
    \/ NestedSkip
    \/ NestedRun
    \/ NestedAfter
    \/ Finish
    \/ SaveOpen
    \/ SaveDump
    \/ SaveReplace
    \/ SaveFail
    \/ AutoSkip
    \/ AutoRun
    \/ AutoNext
    \/ Interrupt
    \/ Crash

Spec == Init /\ [][Next]_vars

\* ------------------------------------------- the engine on its own
\* The sequence functions as pure functions: a start and a stop set are
\* drawn, one function is applied, the result is in seq and stopped_at.
EngineStarts == -1..MaxEngine
EngineSets == SUBSET (0..MaxStop)

InitEngine ==
    /\ n \in EngineStarts
    /\ seen \in EngineSets
    /\ pc = "engine_call"
    /\ args = MkArgs(Some(n), NoMode, FALSE, FALSE, None, FALSE)
    /\ disk = Missing
    /\ starts = <<>>
    /\ idx = 1
    /\ seq = <<>>
    /\ stopped_at = None
    /\ next_start = 0
    /\ current = 0
    /\ counts = <<>>
    /\ tmp = Missing
    /\ out = <<>>
    /\ status = None
    /\ ret = "none"
    /\ crashed = FALSE
    /\ calls = <<>>
    /\ steps = 0
    /\ diskBefore = disk
    /\ saveResult = "none"
    /\ durable = {}
    /\ loaded = {}
    /\ disk0 = disk

\* run_collatz_with_seen_check(n, seen), lines 39-56.
EngineCall ==
    /\ pc = "engine_call"
    /\ LET res == run_collatz_with_seen_check(n, seen) IN
       /\ calls' = Append(calls, n)
       /\ steps' = res.steps
       /\ seq' = res.seq
       /\ stopped_at' = res.stopped_at
       /\ pc' = IF Returned(res) THEN "engine_ret" ELSE "hung"
    /\ UNCHANGED <<args, n, seen, starts, idx, next_start, current, counts,
                   disk, tmp, out, status, ret, crashed, diskBefore,
                   saveResult, durable, loaded, disk0>>

\* collatz_sequence(n), lines 28-36.
SequenceCall ==
    /\ pc = "engine_call"
    /\ LET res == collatz_sequence(n) IN
       /\ calls' = Append(calls, n)
       /\ steps' = res.steps
       /\ seq' = res.seq
       /\ stopped_at' = None
       /\ pc' = IF Returned(res) THEN "sequence_ret" ELSE "hung"
    /\ UNCHANGED <<args, n, seen, starts, idx, next_start, current, counts,
                   disk, tmp, out, status, ret, crashed, diskBefore,
                   saveResult, durable, loaded, disk0>>

NextEngine ==
    \/ EngineCall
    \/ SequenceCall

SpecEngine == InitEngine /\ [][NextEngine]_vars

\* ---------------------------------------------------------------- claims
Last(q) == q[Len(q)]
\* The notices printed for the starts, warnings left out.
Notices == SelectSeq(out, LAMBDA l : l.k \in {"skip", "seq", "stopped"})
Lines(kind) == {i \in 1..Len(Notices) : Notices[i].k = kind}
RetPoints == {"after_run", "after_nested", "auto_next"}
ExitedOk == pc = "exit" /\ status = Some(0) /\ ~crashed

\* C1 as stated: whenever the engine, started at n >= 1, returns a stop value v, v is not in
\* the returned sequence and v is the Collatz successor of its last element.
C1_AsStated ==
    (pc = "engine_ret" /\ n >= 1 /\ stopped_at # None) =>
        /\ seq # <<>>
        /\ Val(stopped_at) \notin Range(seq)
        /\ Val(stopped_at) = Step(Last(seq))

\* C1 amended: a stop value v returned for a start outside the stop set is
\* not in the returned sequence and is the Collatz successor of its last
\* element; for a start inside the stop set the sequence is empty and v is
\* the start itself.
C1_StopValue ==
    (pc = "engine_ret" /\ n >= 1 /\ stopped_at # None) =>
        IF n \in seen
        THEN seq = <<>> /\ stopped_at = Some(n)
        ELSE /\ seq # <<>>
             /\ Val(stopped_at) \notin Range(seq)
             /\ Val(stopped_at) = Step(Last(seq))
             /\ Val(stopped_at) \in seen

C1_Witness ==
    /\ pc = "engine_ret"
    /\ stopped_at # None
    /\ Len(seq) >= 3
    /\ Val(stopped_at) = Step(Last(seq))

\* C2: a start in the stop set gives the empty sequence, the start as stop
\* value and no Collatz step; any other start gives a non-empty sequence
\* that begins with the start.
C2_StartInStopSet ==
    pc = "engine_ret" =>
        /\ n \in seen => (seq = <<>> /\ stopped_at = Some(n) /\ steps = 0)
        /\ n \notin seen => (seq # <<>> /\ seq[1] = n)

C2_Witness ==
    /\ pc = "engine_ret"
    /\ n \in seen
    /\ n # 1
    /\ Step(n) \notin seen
    /\ seq = <<>>
    /\ steps = 0

\* C3: right after a run whose save succeeded the cache file holds exactly
\* the in-memory cache, and from then on, a crash included, the file holds
\* every number of every sequence printed up to that save.
C3_DurablePerStep ==
    /\ (saveResult = "ok" /\ pc \in RetPoints) => DiskSet(disk) = seen
    /\ durable \subseteq DiskSet(disk)

C3_Witness ==
    /\ crashed
    /\ saveResult = "fail_replace"
    /\ durable # {}
    /\ durable # Emitted(out)
    /\ durable \subseteq DiskSet(disk)

\* C4: from the moment a save begins, and wherever it is cut short, the
\* cache file is either what it was when the save began or the complete
\* new list.
C4_AtomicReplace ==
    saveResult # "none" => (disk = diskBefore \/ disk = Dump(seen))

C4_Witness ==
    /\ crashed
    /\ pc = "save_replace"
    /\ tmp = Dump(seen)
    /\ disk = diskBefore
    /\ disk # Dump(seen)

\* C5: a save that fails at open, write or rename leaves the cache file as
\* it was before the call and the in-memory cache with the merged numbers,
\* raises nothing, and returns to the driver, which goes on.
C5_FailedSave ==
    [][(InSave /\ saveResult' \in {"fail_open", "fail_write", "fail_replace"}) =>
          /\ disk' = diskBefore
          /\ disk' = disk
          /\ seen' = seen
          /\ Range(seq) \subseteq seen'
          /\ pc' = ret
          /\ pc' \in RetPoints
          /\ status' = None
          /\ ~crashed']_vars

C5_Witness ==
    /\ saveResult \in {"fail_write", "fail_replace"}
    /\ pc = "loop"
    /\ idx = 2
    /\ Range(seq) \subseteq seen
    /\ ~(Range(seq) \subseteq DiskSet(disk))
    /\ Last(out).k \in {"warn_save", "stopped"}

\* The start the driver is about to handle, if any.
Candidate ==
    IF pc = "loop" /\ idx <= Len(starts) THEN Some(starts[idx])
    ELSE IF pc = "nested" THEN Some(next_start)
    ELSE IF pc = "auto" /\ current < n + MaxAuto THEN Some(current)
    ELSE None

\* C6: with skipping enabled, a candidate that is in the cache gets a skip
\* notice and nothing else: no sequence function is called, and the cache
\* in memory, the cache file and the counter stay as they are.
C6_SkipFrame ==
    [][(/\ Candidate # None
        /\ ~args.no_skip
        /\ Val(Candidate) \in seen
        /\ ~crashed'
        /\ pc' # "exit") =>
          /\ out' = Append(out, SkipLine(Val(Candidate)))
          /\ calls' = calls
          /\ seen' = seen
          /\ disk' = disk
          /\ tmp' = tmp
          /\ counts' = counts
          /\ pc' \in {"loop", "nested", "auto"}
          /\ (idx' = idx + 1 \/ next_start' = next_start - 1
                \/ current' = current + 1)]_vars

C6_Witness ==
    /\ pc = "loop"
    /\ idx = 2
    /\ ~args.no_skip
    /\ out = <<SkipLine(starts[1])>>
    /\ calls = <<>>
    /\ seen # {}

\* The request is refused by the validation the claim describes: a start
\* below 1, an option that is no integer, or a bad value of the mode option
\* that is in force.
BadRequest ==
    \/ args.malformed
    \/ (args.start # None /\ Val(args.start) <= 0)
    \/ (~args.auto /\ args.to # None /\ ~args.down /\ Val(args.to) <= 0)
    \/ (~args.auto /\ args.to = None /\ ~args.down /\ args.after # None
          /\ Val(args.after) < 0)
    \/ (~args.auto /\ args.to = None /\ ~args.down /\ args.after = None
          /\ args.repeats # None /\ Val(args.repeats) <= 0)

\* C7 as stated: no sequence function is ever called with a start below 1,
\* and a bad request is refused with a failure status before any sequence
\* is run or any save is begun.
C7_AsStated ==
    /\ \A i \in 1..Len(calls) : calls[i] >= 1
    /\ BadRequest =>
          /\ calls = <<>>
          /\ saveResult = "none"
          /\ pc = "exit" => status # Some(0)

\* C8 as stated: with --no-skip no start is skipped, so no skip notice is
\* ever printed.
C8_AsStated == args.no_skip => Lines("skip") = {}

\* The repeats scenario: start 6, --repeats 3, skipping enabled, a cache
\* that holds 6, and the session over.
RepeatsScenario ==
    /\ args.start = Some(RepeatStart)
    /\ args.repeats = Some(RepeatsCase.repeats)
    /\ args.after = None /\ args.to = None /\ ~args.down /\ ~args.auto
    /\ ~args.no_skip
    /\ RepeatStart \in loaded
    /\ ExitedOk

\* C9 as stated: the scenario ends with one skip notice, no sequence
\* computed and the cache unchanged in memory and on disk.
C9_AsStated ==
    RepeatsScenario =>
        /\ Cardinality(Lines("skip")) = 1
        /\ calls = <<>>
        /\ seen = loaded
        /\ DiskSet(disk) = loaded

\* C9 amended: the scenario skips 6 without computing it and then handles 7
\* and 8 in turn, each skipped if it is in the cache by then and computed
\* otherwise; the cache ends as the loaded one plus the printed sequences.
\* With the cache [6] that is two skip notices (6 and 8), one computation
\* (7, to completion) and the final cache {6} with all of Collatz(7).
C9_RepeatsScenario ==
    RepeatsScenario =>
        /\ starts = <<RepeatStart, RepeatStart + 1, RepeatStart + 2>>
        /\ Notices[1] = SkipLine(RepeatStart)
        /\ RepeatStart \notin Range(calls)
        /\ Cardinality(Lines("skip")) + Len(calls) = 3
        /\ seen = loaded \cup Emitted(out)
        /\ saveResult = "ok" => DiskSet(disk) = seen
        /\ loaded = {RepeatStart} =>
              /\ Lines("skip") = {1, 3}
              /\ calls = <<RepeatStart + 1>>
              /\ Notices[2] = SeqLine(RepeatStart + 1, collatz_sequence(RepeatStart + 1).seq)
              /\ seen = {RepeatStart} \cup Range(collatz_sequence(RepeatStart + 1).seq)

C9_Witness ==
    /\ RepeatsScenario
    /\ loaded = {RepeatStart}
    /\ calls = <<RepeatStart + 1>>
    /\ saveResult = "ok"

\* Default mode: a start on the command line, no flag at all, an empty
\* cache loaded, and the session over.
DefaultScenario ==
    /\ args.start # None
    /\ args.repeats = None /\ args.after = None /\ args.to = None
    /\ ~args.down /\ ~args.auto /\ ~args.no_skip
    /\ loaded = {}
    /\ ExitedOk

Collatz(x) == collatz_sequence(x).seq

\* C10 as stated: default mode on an empty cache runs n and n+1, both to
\* completion with no early stop, and the cache ends with all of
\* Collatz(n) and Collatz(n+1).
C10_AsStated ==
    DefaultScenario =>
        /\ calls = <<n, n + 1>>
        /\ Lines("stopped") = {}
        /\ \A i \in Lines("seq") : Last(Notices[i].v) = 1
        /\ Range(Collatz(n)) \cup Range(Collatz(n + 1)) \subseteq seen

\* C10 amended: default mode on an empty cache plans n and n+1; n runs to
\* completion; n+1 is skipped if it is in Collatz(n) and otherwise runs
\* only until it meets a number of Collatz(n), where it stops early; the
\* cache ends as exactly Collatz(n) and Collatz(n+1) together.
C10_DefaultScenario ==
    DefaultScenario =>
        /\ starts = <<n, n + 1>>
        /\ Notices[1] = SeqLine(n, Collatz(n))
        /\ IF n + 1 \in Range(Collatz(n))
           THEN calls = <<n>> /\ Last(Notices[1].v) = 1 /\ Lines("skip") # {}
           ELSE /\ calls = <<n, n + 1>>
                /\ \E i \in Lines("seq") : \E j \in Lines("stopped") :
                      /\ Notices[i].s = n + 1 /\ Notices[j].s = n + 1
                      /\ Len(Notices[i].v) < Len(Collatz(n + 1))
                      /\ Notices[i].v = SubSeq(Collatz(n + 1), 1, Len(Notices[i].v))
                      /\ Notices[j].v[1] \in Range(Collatz(n))
                      /\ Notices[j].v[1] = Collatz(n + 1)[Len(Notices[i].v) + 1]
        /\ seen = Range(Collatz(n)) \cup Range(Collatz(n + 1))

C10_Witness ==
    /\ DefaultScenario
    /\ n = DocStart
    /\ calls = <<DocStart, DocStart + 1>>
    /\ \E j \in Lines("stopped") : Notices[j].s = DocStart + 1 /\ Notices[j].v = <<40>>

\* The bounded driver has its plan and has not returned.
PlanDone ==
    /\ ~args.auto
    /\ pc \in {"loop", "after_run", "nested", "after_nested",
               "save_open", "save_dump", "save_replace"}

\* The list a, a + step, ..., t with step +1 if t >= a and -1 otherwise.
Inclusive(a, t) ==
    IF t >= a THEN [i \in 1..(t - a + 1) |-> a + (i - 1)]
    ELSE [i \in 1..(a - t + 1) |-> a - (i - 1)]

\* The plan the claim gives, with the plan of a request that has no mode
\* flag as a parameter.
ClaimedPlan(default) ==
    IF args.down THEN Inclusive(n, 1)
    ELSE IF args.to # None THEN Inclusive(n, Val(args.to))
    ELSE IF args.after # None THEN [i \in 1..(Val(args.after) + 1) |-> n + (i - 1)]
    ELSE IF args.repeats # None THEN [i \in 1..Val(args.repeats) |-> n + (i - 1)]
    ELSE default

\* The request is one the planner has to accept.
ValidPlanRequest ==
    \/ args.down \/ args.to # None
    \/ (args.after # None /\ Val(args.after) >= 0)
    \/ (args.after = None /\ args.repeats # None /\ Val(args.repeats) >= 1)
    \/ (args.after = None /\ args.repeats = None)

RangeExamples ==
    /\ (n = 5 /\ args.to = Some(1)) => starts = <<5, 4, 3, 2, 1>>
    /\ (n = 2 /\ args.to = Some(5) /\ ~args.down) => starts = <<2, 3, 4, 5>>

\* C11 as stated: the plan for start n is [n, n+1] with no mode flag,
\* [n..n+r-1] for repeats r, the plan of repeats a+1 for after a, and the
\* inclusive range to t for a range or descending flag, which wins over
\* repeats and after.
C11_AsStated ==
    /\ PlanDone => starts = ClaimedPlan(<<n, n + 1>>) /\ RangeExamples
    /\ (~args.auto /\ pc = "exit" /\ status = Some(1) /\ n >= 1) => ~ValidPlanRequest

\* C11 amended: as stated, except that with no mode flag the plan is
\* [n, n+1] when the start was given on the command line and [n] when it
\* was typed at the prompt.
C11_Plan ==
    /\ PlanDone =>
          /\ starts = ClaimedPlan(IF args.start # None THEN <<n, n + 1>> ELSE <<n>>)
          /\ RangeExamples
    /\ (~args.auto /\ pc = "exit" /\ status = Some(1) /\ n >= 1) => ~ValidPlanRequest

C11_Witness ==
    /\ pc = "loop" /\ idx = 1
    /\ args.repeats # None /\ args.to = Some(MaxTo) /\ ~args.down
    /\ n = 1
    /\ Len(starts) = MaxTo

\* C12: for a start n >= 1 a sequence function never loops for ever, and
\* with no stop set, or an empty one, what it returns begins with n, ends
\* with 1 and has no stop value.
C12_RunsToOne ==
    n >= 1 =>
        /\ pc # "hung"
        /\ (pc = "sequence_ret" \/ (pc = "engine_ret" /\ seen = {})) =>
              /\ seq # <<>>
              /\ seq[1] = n
              /\ Last(seq) = 1
              /\ stopped_at = None
              /\ \A i \in 1..(Len(seq) - 1) : seq[i + 1] = Step(seq[i]) /\ seq[i] # 1

C12_Witness ==
    /\ pc = "sequence_ret"
    /\ n = MaxEngine
    /\ Len(seq) > MaxEngine
    /\ Last(seq) = 1

\* C13 as stated: an auto session that was interrupted ends with status 0
\* only once the save begun for the current start is over (no save is left
\* interrupted), and the cache file is then a whole list that holds every
\* number saved before.
C13_AsStated ==
    (args.auto /\ pc = "exit" /\ status = Some(0) /\ ~crashed) =>
        /\ Last(out).k = "interrupted"
        /\ saveResult # "interrupted"
        /\ disk = disk0 \/ disk.kind = "json"
        /\ durable \subseteq DiskSet(disk)

\* A counting session of the bounded driver that has printed its report.
CountingDone == ExitedOk /\ ~args.auto /\ args.counts /\ Last(out).k = "done"
FreqHeaders == SelectSeq(out, LAMBDA l : l.k = "freq_header")
FreqListed == SelectSeq(out, LAMBDA l : l.k = "freq")
\* The threshold of the claim, the batch size being the number of starts
\* of the plan the session has gone through.
Threshold ==
    IF args.min_count # None THEN Val(args.min_count)
    ELSE IF Len(starts) \div 4 > 2 THEN Len(starts) \div 4 ELSE 2
BatchScenario ==
    /\ args.start = Some(BatchCase.start)
    /\ args.repeats = Some(BatchCase.repeats)
    /\ args.min_count = None

\* C14: the report of a counting session names its threshold, the explicit
\* minimum count or else max(2, batch size // 4), and lists exactly the
\* counter's (number, count) pairs with count >= threshold, once each, in
\* non-increasing order of count; a batch of 20 has threshold 5.
C14_Report ==
    CountingDone =>
        /\ Len(FreqHeaders) = 1
        /\ FreqHeaders[1].s = Threshold
        /\ {<<FreqListed[i].s, FreqListed[i].v[1]>> : i \in 1..Len(FreqListed)}
              = {counts[i] : i \in {j \in 1..Len(counts) : counts[j][2] >= Threshold}}
        /\ \A i, j \in 1..Len(FreqListed) :
              /\ i < j => FreqListed[i].v[1] >= FreqListed[j].v[1]
              /\ i # j => FreqListed[i].s # FreqListed[j].s
        /\ \A i \in 1..Len(out) :
              out[i].k = "freq" => \E h \in 1..(i - 1) : out[h].k = "freq_header"
        /\ BatchScenario => Len(starts) = 20 /\ FreqHeaders[1].s = 5

C14_Witness ==
    /\ CountingDone
    /\ args.min_count = Some(1)
    /\ Len(FreqListed) > 2
    /\ Len(FreqListed) = Len(counts)

\* C15: no step of a session, in any mode, removes a number from the cache
\* in memory: the cache after the step is a superset of the cache before.
C15_SeenGrows == [][seen \subseteq seen']_vars

C15_Witness ==
    /\ pc = "after_nested"
    /\ saveResult = "fail_write"
    /\ stopped_at # None
    /\ loaded # {}
    /\ loaded \subseteq seen /\ loaded # seen
    /\ Range(seq) \subseteq seen

\* The driver is inside the nested downward walk.
InWalk == pc \in {"nested", "after_nested"} \/ (InSave /\ ret = "after_nested")
\* The step goes on with the session: no kill, no return, no endless loop.
GoesOn == ~crashed' /\ pc' \notin {"exit", "hung"}

\* C16: with --down, a stop reported for the outer candidate s >= 2 starts
\* a walk that gives s-1, s-2, ..., 1, in that order, the skip-or-run
\* step, and only after 1 does the outer plan go on with its next
\* candidate; without --down there is no walk and the candidates of the
\* plan are taken one by one in plan order.
C16_NestedWalk ==
    [][GoesOn =>
        /\ (pc = "after_run" /\ args.down /\ stopped_at # None /\ starts[idx] >= 2) =>
              pc' = "nested" /\ next_start' = starts[idx] - 1 /\ idx' = idx
        /\ (pc = "after_run" /\ ~(args.down /\ stopped_at # None /\ starts[idx] >= 2)) =>
              pc' = "loop" /\ idx' = idx + 1
        /\ pc = "nested" =>
              /\ next_start >= 1
              /\ \/ /\ out' = Append(out, SkipLine(next_start))
                    /\ calls' = calls
                    /\ next_start' = next_start - 1
                 \/ /\ calls' = Append(calls, next_start)
                    /\ next_start' = next_start
        /\ pc = "after_nested" => next_start' = next_start - 1
        /\ (InWalk /\ InWalk') =>
              /\ idx' = idx
              /\ next_start' \in {next_start, next_start - 1}
              /\ pc' = "nested" => next_start' >= 1
        /\ (InWalk /\ ~InWalk') =>
              next_start' = 0 /\ pc' = "loop" /\ idx' = idx + 1
        /\ (~InWalk /\ InWalk') => pc = "after_run"
        /\ ~args.down => ~InWalk'
        /\ (pc = "loop" /\ PlanDone) =>
              /\ idx' \in {idx, idx + 1}
              /\ \/ out' = Append(out, SkipLine(starts[idx])) /\ calls' = calls
                 \/ calls' = Append(calls, starts[idx])]_vars

C16_Witness ==
    /\ pc = "nested"
    /\ args.down
    /\ idx = 1
    /\ starts[1] = MaxStart
    /\ next_start = 1
    /\ calls = <<MaxStart, MaxStart - 1>>

\* The inclusive range from a start down to 1 taken in plan order with no
\* nested walk: each start is skipped, or run against the cache as it is
\* by then. st holds the cache and the sequence lines printed so far.
SweepStep(st, s, noskip) ==
    IF ~noskip /\ s \in st.seen THEN st
    ELSE LET r == run_collatz_with_seen_check(s, st.seen)
         IN IF r.seq = <<>> THEN st
            ELSE [seen |-> st.seen \cup Range(r.seq),
                  emitted |-> Append(st.emitted, SeqLine(s, r.seq))]

RECURSIVE Sweep(_, _, _)
Sweep(st, s, noskip) ==
    IF s < 1 THEN st ELSE Sweep(SweepStep(st, s, noskip), s - 1, noskip)

RangeToOne == Sweep([seen |-> loaded, emitted |-> <<>>], n, args.no_skip)
SeqLines == SelectSeq(out, LAMBDA l : l.k = "seq")
\* The cache after the first k printed sequences.
CacheAfter(k) == loaded \cup UNION {Range(SeqLines[i].v) : i \in 1..k}
SaveWarnings == {i \in 1..Len(out) : out[i].k = "warn_save"}

\* A --down session, or a --to 1 session, that has run to its end.
SweepDone ==
    /\ ExitedOk /\ ~args.auto /\ Last(out).k = "done"
    /\ args.down \/ args.to = Some(1)

\* C17: a --down session and a --to 1 session from the same start on the
\* same cache print the same sequences in the same order and end with the
\* same cache, those of the range n..1 taken in plan order; the cache file
\* is in both the one left by the last save that succeeded, the whole final
\* cache when no save failed.
C17_DownIsRangeToOne ==
    SweepDone =>
        /\ SeqLines = RangeToOne.emitted
        /\ seen = RangeToOne.seen
        /\ \/ disk = disk0
           \/ \E k \in 1..Len(SeqLines) : disk = Dump(CacheAfter(k))
        /\ SaveWarnings = {} =>
              disk = IF SeqLines = <<>> THEN disk0 ELSE Dump(seen)

C17_Witness ==
    /\ SweepDone
    /\ args.down /\ ~args.no_skip
    /\ n = 5
    /\ loaded = {1, 2, 4}
    /\ calls = <<5, 3>>
    /\ Cardinality(Lines("stopped")) = 2
    /\ disk = Dump(seen)

\* How many numbers the first k printed sequences have, repeats counted.
RECURSIVE PrintedNumbers(_)
PrintedNumbers(k) == IF k = 0 THEN 0 ELSE PrintedNumbers(k - 1) + Len(SeqLines[k].v)

\* No number is in two printed sequences, nor twice in one: the printed
\* numbers are as many as the distinct ones.
EmittedOnce == PrintedNumbers(Len(SeqLines)) = Cardinality(Emitted(out))
CountsAtMostOne == \A i \in 1..Len(counts) : counts[i][2] <= 1
NothingListed == args.min_count = None => FreqListed = <<>>

\* C18 as stated: in every mode no number is in two printed sequences of a
\* session nor twice in one, every count of the counter is at most 1, and
\* with the default threshold the report lists no number.
C18_AsStated == EmittedOnce /\ CountsAtMostOne /\ NothingListed

\* C18 amended: the same, the --auto mode left out of the first part: in
\* every mode but --auto no number is in two printed sequences nor twice
\* in one; in every mode every count is at most 1 and the report with the
\* default threshold lists no number.
C18_CountsAtMostOne ==
    /\ ~args.auto => EmittedOnce
    /\ CountsAtMostOne
    /\ NothingListed

C18_Witness ==
    /\ CountingDone
    /\ args.min_count = None
    /\ loaded # {}
    /\ Lines("stopped") # {}
    /\ Len(SeqLines) > 1
    /\ Len(counts) > 2
    /\ FreqListed = <<>>

\* S holds, with every number but 1, its Collatz successor.
Closed(S) == \A x \in S : x # 1 => Step(x) \in S

\* C19: when the cache that was loaded is closed under the Collatz step,
\* the cache in memory is closed after every step of the session, so that
\* a cached number has its whole trajectory down to 1 in the cache (looked
\* at where the cache has just been assigned: after the load and after
\* each merge).
C19_ClosurePreserved ==
    Closed(loaded) =>
        /\ Closed(seen)
        /\ pc \in {"plan", "save_open"} =>
              \A x \in seen : (1 <= x /\ x <= MaxEngine) =>
                  Range(Collatz(x)) \subseteq seen

C19_Witness ==
    /\ pc = "after_nested"
    /\ stopped_at # None
    /\ Len(seq) > 1
    /\ loaded # {}
    /\ Closed(loaded)
    /\ seen # loaded
    /\ Closed(seen)

\* C20 as stated: whatever load and the saves did, the cache file holds at
\* every moment every number it held when the session began.
C20_AsStated == DiskSet(disk0) \subseteq DiskSet(disk)

\* load_seen returned what the file held (a missing file holds nothing).
LoadedAll == loaded = DiskSet(disk0)

\* C20 amended: the cache file keeps every number it held at session start
\* provided load_seen returned them all; when load_seen failed on a file
\* that held numbers, the first save that succeeds leaves in the file only
\* the numbers printed in this session. In both cases the file, once
\* rewritten, holds the loaded cache and printed numbers and nothing else.
C20_NoEntryLost ==
    /\ pc \in {"parse", "load"} => disk = disk0
    /\ disk # disk0 =>
          /\ disk.kind = "json"
          /\ loaded \subseteq DiskSet(disk)
          /\ DiskSet(disk) \subseteq loaded \cup Emitted(out)
          /\ LoadedAll => DiskSet(disk0) \subseteq DiskSet(disk)

C20_Witness ==
    /\ LoadedAll
    /\ loaded # {}
    /\ SaveWarnings # {}
    /\ saveResult = "ok"
    /\ disk # disk0
    /\ DiskSet(disk0) \subseteq DiskSet(disk)
    /\ DiskSet(disk0) # DiskSet(disk)

\* The starts the driver has finished with: those that have their skip
\* notice or their printed sequence, those the for-loop has gone past,
\* those the nested walk has gone past, those the auto loop has gone past.
Handled ==
    {out[i].s : i \in {j \in 1..Len(out) : out[j].k \in {"skip", "seq"}}}
    \cup (IF PlanDone \/ (~args.auto /\ pc = "exit")
          THEN {starts[i] : i \in 1..Min(idx - 1, Len(starts))} ELSE {})
    \cup (IF pc = "nested" THEN (next_start + 1)..starts[idx] ELSE {})
    \cup (IF args.auto /\ pc \in {"auto", "exit"} /\ current >= 1
          THEN n..(current - 1) ELSE {})

\* The bounded driver has gone through its whole plan and returned.
BoundedDone == ExitedOk /\ ~args.auto /\ Last(out).k = "done"

\* C21: in every mode, with or without --no-skip, a start the driver has
\* finished with, by a skip, a run to completion or a run to an early stop,
\* is in the cache in memory; so when a bounded session is over every
\* start of its plan is in the cache, and after --down from n all of 1..n.
C21_HandledInSeen ==
    /\ Handled \subseteq seen
    /\ BoundedDone =>
          /\ Range(starts) \subseteq seen
          /\ idx = Len(starts) + 1
          /\ args.down => 1..n \subseteq seen

C21_Witness ==
    /\ BoundedDone
    /\ args.down /\ args.no_skip
    /\ n = MaxStart
    /\ Lines("skip") # {}
    /\ Lines("stopped") # {}
    /\ Handled = 1..n
    /\ 1..n \subseteq seen

====
